---- MODULE Spec2Model ----
(***************************************************************************)
(* Model of the transcript review tool (src/main.py, src/transcription.py, *)
(* src/formatter.py, src/config_manager.py).                               *)
(*                                                                         *)
(* Text is a sequence of one-character strings; "\n" is the line break.    *)
(* Times (start, end) are fixed-point numbers in tenths of a second, so    *)
(* 1257 stands for the float 125.7.  A JSON object is a function from key  *)
(* names to values; an absent key is absent from its DOMAIN.               *)
(***************************************************************************)
EXTENDS Integers, Sequences, FiniteSets, TLC

VARIABLES
    files,                  \* transcripts/ directory: file name -> Transcript Record
    config,                 \* config.json: key -> value
    now,                    \* wall clock, whole seconds
    review_transcript_files,\* self.review_transcript_files (catalog behind the dropdown)
    current_review_file,    \* self.current_review_file, None before the first load
    review_text,            \* content of the self.review_text widget
    low_confidence,         \* per displayed segment: "low_confidence" tag added
    loaded,                 \* the data, threshold and flags the editor displays unedited
    typed,                  \* number of blocks the user has typed into the editor
    saves,                  \* number of times a reviewed transcript was written
    op,                     \* history: the last operation, its inputs and result
    transcripts_exists,     \* os.path.exists("transcripts")
    scan,                   \* history: the last call of get_saved_transcripts
    workers,                \* background threads of start_transcription
    transcribe_progress_label, \* text of self.transcribe_progress_label
    transcript_files,       \* self.transcript_files (catalog of the format tab)
    sessions,               \* running instances of the program reviewing a record
    last_write,             \* history: the last write of a record by an instance
    format_workers,         \* background threads of start_formatting
    format_progress_label,  \* text of self.format_progress_label
    selected_json_file,     \* self.selected_json_file, None before the first Format
    formatted_text,         \* self.formatted_text
    completed               \* the documents written to completed/

\* the review tab's own state
review == <<review_transcript_files, current_review_file, review_text,
            low_confidence, loaded, typed, saves, op>>

\* the transcription tab's state
transcription == <<workers, transcribe_progress_label, transcript_files>>

\* the instances of the program that review side by side
instances == <<sessions, last_write>>

\* the format tab's state and the exported documents
formatting == <<format_workers, format_progress_label, selected_json_file,
                formatted_text, completed>>

vars == <<files, config, now, review_transcript_files, current_review_file,
          review_text, low_confidence, loaded, typed, saves, op,
          transcripts_exists, scan, workers, transcribe_progress_label,
          transcript_files, sessions, last_write, format_workers,
          format_progress_label, selected_json_file, formatted_text, completed>>

----------------------------------------------------------------------------
(* Bounds of the model *)

MaxSegs == 2
MaxTyped == 4
MaxSaves == 2
MaxStart == 60609
MaxWorkers == 2
MaxClock == 1

----------------------------------------------------------------------------
(* Python / Tk primitives *)

None == "None"

NL == "\n"

\* dict.get(key, default)
Get(d, k, default) == IF k \in DOMAIN d THEN d[k] ELSE default

\* str.isspace for the characters of the model
IsSpace(c) == c \in {" ", NL}

RECURSIVE LStrip(_)
LStrip(s) ==
    IF s = <<>> THEN <<>>
    ELSE IF IsSpace(Head(s)) THEN LStrip(Tail(s)) ELSE s

RECURSIVE RStrip(_)
RStrip(s) ==
    IF s = <<>> THEN <<>>
    ELSE IF IsSpace(s[Len(s)]) THEN RStrip(SubSeq(s, 1, Len(s) - 1)) ELSE s

\* str.strip()
Strip(s) == RStrip(LStrip(s))

\* str.startswith(p)
StartsWith(s, p) == Len(s) >= Len(p) /\ SubSeq(s, 1, Len(p)) = p

\* s[n:]
Drop(s, n) == SubSeq(s, n + 1, Len(s))

RECURSIVE SplitFrom(_, _, _)
SplitFrom(s, sep, cur) ==
    IF s = <<>> THEN <<cur>>
    ELSE IF StartsWith(s, sep) THEN <<cur>> \o SplitFrom(Drop(s, Len(sep)), sep, <<>>)
    ELSE SplitFrom(Tail(s), sep, Append(cur, Head(s)))

\* str.split(sep): leftmost non-overlapping occurrences, empty pieces kept
Split(s, sep) == SplitFrom(s, sep, <<>>)

RECURSIVE Join(_, _)
\* sep.join(parts)
Join(sep, parts) ==
    IF parts = <<>> THEN <<>>
    ELSE IF Len(parts) = 1 THEN parts[1]
    ELSE parts[1] \o sep \o Join(sep, Tail(parts))

\* c in s
Contains(s, c) == \E k \in 1..Len(s) : s[k] = c

\* s.index(c), 0-based; used only where Contains(s, c)
Index(s, c) == (CHOOSE k \in 1..Len(s) : s[k] = c /\ \A j \in 1..(k - 1) : s[j] # c) - 1

DigitChars == <<"0", "1", "2", "3", "4", "5", "6", "7", "8", "9">>

RECURSIVE Decimal(_)
\* str(n) for n >= 0
Decimal(n) == IF n < 10 THEN <<DigitChars[n + 1]>>
              ELSE Append(Decimal(n \div 10), DigitChars[(n % 10) + 1])

\* f"{n}" in place of f"{n:02d}": the zero padding forgotten
Fmt02dUnpadded(n) == Decimal(n)

\* f"{n:02d}" for n >= 0
Fmt02d(n) == IF Len(Decimal(n)) < 2 THEN <<"0">> \o Decimal(n) ELSE Decimal(n)

\* the digit a character stands for, -1 for any other character
DigitValue(c) ==
    IF \E d \in 1..10 : DigitChars[d] = c
    THEN (CHOOSE d \in 1..10 : DigitChars[d] = c) - 1
    ELSE -1

RECURSIVE DigitsValue(_)
\* the number a non-empty run of digits reads as
DigitsValue(s) ==
    IF Len(s) = 1 THEN DigitValue(s[1])
    ELSE DigitsValue(SubSeq(s, 1, Len(s) - 1)) * 10 + DigitValue(s[Len(s)])

AllDigits(s) == s # <<>> /\ \A k \in 1..Len(s) : DigitValue(s[k]) >= 0

\* int(s): ok and the value, or not ok where Python raises ValueError
ParseInt(s) ==
    LET t == Strip(s)
    IN  IF AllDigits(t) THEN [ok |-> TRUE, value |-> DigitsValue(t)]
        ELSE IF t # <<>> /\ Head(t) = "-" /\ AllDigits(Tail(t))
        THEN [ok |-> TRUE, value |-> 0 - DigitsValue(Tail(t))]
        ELSE IF t # <<>> /\ Head(t) = "+" /\ AllDigits(Tail(t))
        THEN [ok |-> TRUE, value |-> DigitsValue(Tail(t))]
        ELSE [ok |-> FALSE, value |-> 0]

\* str.endswith(p)
EndsWith(s, p) == Len(s) >= Len(p) /\ SubSeq(s, Len(s) - Len(p) + 1, Len(s)) = p

\* ord(c) for the characters timestamps are made of
Ord(c) ==
    CASE c = "-" -> 45
      [] c = "." -> 46
      [] c = ":" -> 58
      [] c = "T" -> 84
      [] OTHER -> 48 + DigitValue(c)

RECURSIVE StrLess(_, _)
\* a < b on str: the first differing character decides, a proper prefix is less
StrLess(a, b) ==
    IF b = <<>> THEN FALSE
    ELSE IF a = <<>> THEN TRUE
    ELSE IF Head(a) = Head(b) THEN StrLess(Tail(a), Tail(b))
    ELSE Ord(Head(a)) < Ord(Head(b))

\* the instant `second` seconds into the first minute of the first day of
\* `month` of 2024, as datetime.isoformat() renders it
Iso(month, second) ==
    <<"2", "0", "2", "4", "-">> \o Fmt02d(month) \o <<"-", "0", "1", "T", "0", "0", ":", "0", "0", ":">>
    \o Fmt02d(second)

\* datetime.now().isoformat() with the clock at t seconds past 2024-01-01T00:00:00
IsoFormat(t) == Iso(1, t)

\* the same instant as strftime("%Y%m%d_%H%M%S") renders it
Stamp(month, second) ==
    <<"2", "0", "2", "4">> \o Fmt02d(month) \o <<"0", "1", "_", "0", "0", "0", "0">>
    \o Fmt02d(second)

\* datetime.now().strftime("%Y%m%d_%H%M%S") with the clock at t
StrfTime(t) == Stamp(1, t)

\* int(start // 60), start in tenths of a second
MinutesOf(start) == start \div 600

\* int(start % 60), start in tenths of a second
SecondsOf(start) == (start % 600) \div 10

\* f"[{minutes:02d}:{seconds:02d}]"
FormatTimestamp(start) ==
    <<"[">> \o Fmt02d(MinutesOf(start)) \o <<":">> \o Fmt02d(SecondsOf(start)) \o <<"]">>

----------------------------------------------------------------------------
(* Segment codec: encode (load_transcript_for_review) *)

\* "Speaker" as text
DefaultSpeaker == <<"S", "p", "e", "a", "k", "e", "r">>

\* confidence <= threshold in place of confidence < threshold
IsLowConfidenceInclusive(confidence, threshold) == confidence <= threshold

\* confidence > threshold in place of confidence < threshold
IsLowConfidenceInverted(confidence, threshold) == confidence > threshold

\* confidence < threshold
IsLowConfidence(confidence, threshold) == confidence < threshold

\* segment.get("confidence", 100)
ConfidenceOf(segment) == Get(segment, "confidence", 100)

\* one pass of the display loop: timestamp, speaker label, text, blank line
EncodeSegment(segment) ==
    LET speaker == Get(segment, "speaker", DefaultSpeaker)
        text == Get(segment, "text", <<>>)
        start == Get(segment, "start", 0)
    IN  FormatTimestamp(start) \o <<" ">>
        \o <<"[">> \o speaker \o <<"]", " ">>
        \o text
        \o <<NL, NL>>

RECURSIVE Encode(_)
\* widget content after the display loop over data.get("segments", [])
Encode(segments) ==
    IF segments = <<>> THEN <<>>
    ELSE EncodeSegment(Head(segments)) \o Encode(Tail(segments))

\* which segments get the low_confidence tag
TagLowConfidence(segments, threshold) ==
    [i \in 1..Len(segments) |-> IsLowConfidence(ConfidenceOf(segments[i]), threshold)]

----------------------------------------------------------------------------
(* Segment codec: decode (save_reviewed_transcript) *)

\* self.review_text.get(1.0, tk.END): the content and the widget's final newline
WidgetGet(content) == content \o <<NL>>

\* the startswith("[") test forgotten
ParseBlockAnyBracket(line) ==
    IF Contains(line, "]")
    THEN LET close_bracket == Index(line, "]")
         IN  [speaker |-> SubSeq(line, 2, close_bracket),
              text |-> Strip(Drop(line, close_bracket + 1))]
    ELSE [speaker |-> DefaultSpeaker, text |-> line]

\* the speaker label and text of one stripped, non-empty block
ParseBlock(line) ==
    IF StartsWith(line, <<"[">>) /\ Contains(line, "]")
    THEN LET close_bracket == Index(line, "]")
         IN  [speaker |-> SubSeq(line, 2, close_bracket),
              text |-> Strip(Drop(line, close_bracket + 1))]
    ELSE [speaker |-> DefaultSpeaker, text |-> line]

\* a fresh segment with the original's timing in place of a copy of the original
BuildSegmentTimingOnly(i, data_segments, parsed) ==
    [k \in {"start", "end", "text", "speaker"} |->
        IF k = "text" THEN parsed.text
        ELSE IF k = "speaker" THEN parsed.speaker
        ELSE IF i < Len(data_segments) THEN Get(data_segments[i + 1], k, 0)
        ELSE 0]

\* the segment for the block at index i (0-based) of the split text
BuildSegment(i, data_segments, parsed) ==
    IF i < Len(data_segments)
    THEN LET original == data_segments[i + 1]
         IN  [k \in DOMAIN original \cup {"text", "speaker"} |->
                 IF k = "text" THEN parsed.text
                 ELSE IF k = "speaker" THEN parsed.speaker
                 ELSE original[k]]
    ELSE [k \in {"start", "end", "text", "speaker"} |->
             IF k = "text" THEN parsed.text
             ELSE IF k = "speaker" THEN parsed.speaker
             ELSE 0]

RECURSIVE ParseLinesKeepingBlank(_, _, _)
\* the test for an empty line forgotten: every block becomes a segment
ParseLinesKeepingBlank(lines, i, data_segments) ==
    IF i >= Len(lines) THEN <<>>
    ELSE <<BuildSegment(i, data_segments, ParseBlock(Strip(lines[i + 1])))>>
         \o ParseLinesKeepingBlank(lines, i + 1, data_segments)

RECURSIVE ParseLines(_, _, _)
\* for i, line in enumerate(lines), from index i (0-based) on
ParseLines(lines, i, data_segments) ==
    IF i >= Len(lines) THEN <<>>
    ELSE LET line == Strip(lines[i + 1])
         IN  IF line = <<>> THEN ParseLines(lines, i + 1, data_segments)
             ELSE <<BuildSegment(i, data_segments, ParseBlock(line))>>
                  \o ParseLines(lines, i + 1, data_segments)

\* [s["text"] for s in segments]
TextsOf(segments) == [i \in 1..Len(segments) |-> segments[i]["text"]]

\* "".join(texts) in place of " ".join(texts)
FullTranscriptNoSpace(texts) == Join(<<>>, texts)

\* " ".join(texts)
FullTranscript(texts) == Join(<<" ">>, texts)

\* the record written back for the widget content, given the record read
Reviewed(data, content) ==
    LET edited_text == Strip(WidgetGet(content))
        lines == Split(edited_text, <<NL, NL>>)
        segments == ParseLines(lines, 0, data["segments"])
    IN  [k \in DOMAIN data \cup {"segments", "full_transcript"} |->
            IF k = "segments" THEN segments
            ELSE IF k = "full_transcript" THEN FullTranscript(TextsOf(segments))
            ELSE data[k]]

----------------------------------------------------------------------------
(* Configuration store *)

\* load_config() when config.json does not exist
DefaultConfig == [groq_api_key |-> "", huggingface_token |-> ""]

\* get_huggingface_token()
get_huggingface_token(cfg) == Get(cfg, "huggingface_token", "")

\* get_confidence_threshold(): the stored value, 0 when unset
get_confidence_threshold(cfg) == Get(cfg, "confidence_threshold", 0)

\* set_confidence_threshold(threshold): load_config, set the key, save_config
set_confidence_threshold(cfg, threshold) ==
    [k \in DOMAIN cfg \cup {"confidence_threshold"} |->
        IF k = "confidence_threshold" THEN threshold ELSE cfg[k]]

\* the upper limit forgotten
ThresholdNonNegative(threshold) == 0 <= threshold

\* 0 <= threshold <= 100
ThresholdInRange(threshold) == 0 <= threshold /\ threshold <= 100

----------------------------------------------------------------------------
(* Transcription stage and catalog *)

\* the except clause without its loop: the labels assigned before the
\* diarization raised are kept
DiarizedSegmentsKeepingLabels(hf_token, diarization, aligned, labelled) ==
    IF hf_token # "" /\ Strip(<<hf_token>>) # <<>>
    THEN labelled
    ELSE [i \in 1..Len(aligned) |->
            [k \in DOMAIN aligned[i] \cup {"speaker"} |->
                IF k = "speaker" THEN DefaultSpeaker ELSE aligned[i][k]]]

\* result["segments"] after step 3 of transcribe_audio: the diarizer's labelling
\* when a token is configured and diarization succeeds, else every segment
\* labelled "Speaker"
DiarizedSegments(hf_token, diarization, aligned, labelled) ==
    IF hf_token # "" /\ Strip(<<hf_token>>) # <<>> /\ diarization = "ok"
    THEN labelled
    ELSE [i \in 1..Len(aligned) |->
            [k \in DOMAIN aligned[i] \cup {"speaker"} |->
                IF k = "speaker" THEN DefaultSpeaker ELSE aligned[i][k]]]

\* segment_data for one segment of the result
SegmentData(segment) ==
    [start |-> segment["start"],
     end |-> segment["end"],
     text |-> Strip(segment["text"]),
     speaker |-> Get(segment, "speaker", DefaultSpeaker)]

\* transcript_data as written by transcribe_audio
TranscriptData(project_name, timestamp, result_segments) ==
    [project_name |-> project_name,
     timestamp |-> timestamp,
     full_transcript |->
        Join(<<" ">>, [i \in 1..Len(result_segments) |-> Strip(result_segments[i]["text"])]),
     segments |-> [i \in 1..Len(result_segments) |-> SegmentData(result_segments[i])]]

JsonSuffix == <<".", "j", "s", "o", "n">>

\* transcripts/{project_name}_{timestamp_str}.json
JsonFilename(project_name, timestamp_str) ==
    project_name \o <<"_">> \o timestamp_str \o JsonSuffix

\* content of a file json.load rejects: empty, truncated or not JSON at all
InvalidJson == [invalid_json |-> TRUE]

\* json.load(f) returns
IsJson(content) == "invalid_json" \notin DOMAIN content

\* "Unknown" as text
Unknown == <<"U", "n", "k", "n", "o", "w", "n">>

\* one catalog entry of get_saved_transcripts
CatalogEntry(dir, filepath) ==
    [filepath |-> filepath,
     project_name |-> Get(dir[filepath], "project_name", Unknown),
     timestamp |-> Get(dir[filepath], "timestamp", <<>>)]

RECURSIVE Orders(_)
\* the sequences that list every element of a set once
Orders(names) ==
    IF names = {} THEN {<<>>}
    ELSE UNION { { <<f>> \o rest : rest \in Orders(names \ {f}) } : f \in names }

\* the orders os.listdir can return the directory's names in
ListDir(dir) == Orders(DOMAIN dir)

RECURSIVE Entries(_, _)
\* the list built by the loop over the listing: one entry per name ending in .json
Entries(dir, listing) ==
    IF listing = <<>> THEN <<>>
    ELSE IF EndsWith(Head(listing), JsonSuffix)
    THEN <<CatalogEntry(dir, Head(listing))>> \o Entries(dir, Tail(listing))
    ELSE Entries(dir, Tail(listing))

RECURSIVE InsertByTimestampAscending(_, _)
\* reverse=True forgotten: oldest first
InsertByTimestampAscending(sorted, e) ==
    IF sorted = <<>> THEN <<e>>
    ELSE IF StrLess(e.timestamp, Head(sorted).timestamp) THEN <<e>> \o sorted
    ELSE <<Head(sorted)>> \o InsertByTimestampAscending(Tail(sorted), e)

RECURSIVE InsertByTimestamp(_, _)
\* e placed behind every entry whose timestamp is not less than its own
InsertByTimestamp(sorted, e) ==
    IF sorted = <<>> THEN <<e>>
    ELSE IF StrLess(Head(sorted).timestamp, e.timestamp) THEN <<e>> \o sorted
    ELSE <<Head(sorted)>> \o InsertByTimestamp(Tail(sorted), e)

RECURSIVE SortByTimestamp(_)
\* files.sort(key=lambda x: x["timestamp"], reverse=True): stable, newest first
SortByTimestamp(entries) ==
    IF entries = <<>> THEN <<>>
    ELSE InsertByTimestamp(SortByTimestamp(SubSeq(entries, 1, Len(entries) - 1)),
                           entries[Len(entries)])

\* get_saved_transcripts() with os.listdir returning listing: the list
\* returned, or raised where json.load rejects a .json file
get_saved_transcripts(exists, dir, listing) ==
    IF ~exists THEN [raised |-> FALSE, value |-> <<>>]
    ELSE IF \E k \in 1..Len(listing) :
                EndsWith(listing[k], JsonSuffix) /\ ~IsJson(dir[listing[k]])
    THEN [raised |-> TRUE, value |-> <<>>]
    ELSE [raised |-> FALSE, value |-> SortByTimestamp(Entries(dir, listing))]

\* the lists get_saved_transcripts can return for an existing directory
SavedTranscripts(dir) ==
    { get_saved_transcripts(TRUE, dir, listing).value : listing \in ListDir(dir) }

\* what a call of get_saved_transcripts saw and did, for the history
ScanOf(exists, dir, listing) ==
    [raised |-> get_saved_transcripts(exists, dir, listing).raised,
     returned |-> get_saved_transcripts(exists, dir, listing).value,
     json_files |-> {f \in DOMAIN dir : EndsWith(f, JsonSuffix)},
     valid |-> {f \in DOMAIN dir : EndsWith(f, JsonSuffix) /\ IsJson(dir[f])}]

----------------------------------------------------------------------------
(* Inputs of the model *)

ProjectP == <<"p">>

Projects == {ProjectP}

\* start of the i-th utterance, tenths of a second: 0.5, 126.2, 251.9, ...
StartAt(i) == (i - 1) * 1257 + 5

TextA == <<"a">>
SpeakerA == <<"A">>

\* the segments a record found on disk at start-up may hold at position i:
\* with a speaker and no confidence (odd positions only), or with a confidence
\* and no speaker
InitSegments(i) ==
    LET labelled == [start |-> StartAt(i), end |-> StartAt(i) + 10,
                     text |-> TextA, speaker |-> SpeakerA]
        scored == [start |-> StartAt(i), end |-> StartAt(i) + 10,
                   text |-> TextA, confidence |-> 50]
    IN  IF i % 2 = 1 THEN {labelled, scored} ELSE {scored}

InitSegmentLists ==
    UNION { { sq \in [1..n -> UNION {InitSegments(i) : i \in 1..n}] :
                \A i \in 1..n : sq[i] \in InitSegments(i) } : n \in 0..MaxSegs }

\* well-formed records of the interchange format, written before start-up
InitRecords ==
    { [project_name |-> ProjectP, timestamp |-> IsoFormat(0),
       full_transcript |-> Join(<<" ">>, [i \in 1..Len(sq) |-> Get(sq[i], "text", <<>>)]),
       segments |-> sq] : sq \in InitSegmentLists }

EmptyDir == [f \in {} |-> InvalidJson]

\* the blocks the user types into the review editor
EditBlocks ==
    { <<" ">>,
      <<"a", "]">>,
      <<"[", "a">>,
      <<"[", "b", "]", " ", "a">> }

EditTexts(budget) ==
    UNION { [1..n -> EditBlocks] : n \in 1..budget }

\* what the user can type into the threshold spinbox
ThresholdInputs ==
    { <<"a">>, <<"-", "1">>, <<"0">>, <<"5", "0">>, <<"1", "0", "0">>, <<"1", "0", "1">> }

\* text of the i-th utterance as the speech model returns it
RawText(i) == IF i % 2 = 1 THEN <<" ", "a">> ELSE <<"b", " ">>

\* the aligned result of the speech model for an audio with n utterances
Aligned(n) ==
    [i \in 1..n |-> [start |-> StartAt(i), end |-> StartAt(i) + 10, text |-> RawText(i)]]

\* the labellings assign_word_speakers can return: a speaker on the first j
\* segments, none on the others
Labellings(aligned) ==
    { [i \in 1..Len(aligned) |->
          IF i <= j
          THEN [start |-> aligned[i].start, end |-> aligned[i].end,
                text |-> aligned[i].text, speaker |-> SpeakerA]
          ELSE aligned[i]] : j \in 0..Len(aligned) }

----------------------------------------------------------------------------
(* State machine *)

NotLoaded == [shown |-> FALSE, data |-> [segments |-> <<>>], threshold |-> 0, flags |-> <<>>]

\* a thread of start_transcription not started yet
IdleWorker ==
    [pc |-> "idle", project_name |-> <<>>, utterances |-> 0,
     segments |-> <<>>, transcript_data |-> InvalidJson, json_filename |-> <<>>,
     loaded_model |-> "none", diarized |-> "none",
     success |-> FALSE, failure |-> FALSE]

\* self.formatted_text before any formatting: the empty string
NoText == [source |-> <<>>, project_name |-> <<>>]

\* a thread of start_formatting not started yet
IdleFormatter ==
    [pc |-> "idle", api_key |-> "", json_filepath |-> <<>>, result |-> NoText,
     llm |-> "none", success |-> FALSE, failure |-> FALSE]

\* the instances of the program that run side by side on one directory
Sessions == {1, 2}

\* an instance that has no record loaded for review
ClosedSession ==
    [pc |-> "closed", current_review_file |-> <<>>, review_text |-> <<>>,
     edited |-> FALSE, edited_text |-> <<>>,
     read |-> [segments |-> <<>>], data |-> [segments |-> <<>>]]

NoWrite ==
    [session |-> 0, stale |-> FALSE, edited_text |-> <<>>,
     read |-> [segments |-> <<>>], data |-> [segments |-> <<>>]]

InitWith(dir) ==
    /\ files = dir
    /\ config = DefaultConfig
    /\ now = 0
    /\ current_review_file = None
    /\ review_text = <<>>
    /\ low_confidence = <<>>
    /\ loaded = NotLoaded
    /\ typed = 0
    /\ saves = 0
    /\ op = [name |-> "init"]
    /\ transcripts_exists = TRUE
    /\ \E listing \in ListDir(dir) :
          /\ review_transcript_files = get_saved_transcripts(TRUE, dir, listing).value
          /\ transcript_files = get_saved_transcripts(TRUE, dir, listing).value
          /\ scan = ScanOf(TRUE, dir, listing)
    /\ workers = [w \in 1..MaxWorkers |-> IdleWorker]
    /\ transcribe_progress_label = ""
    /\ sessions = [s \in Sessions |-> ClosedSession]
    /\ last_write = NoWrite
    /\ format_workers = [w \in 1..MaxWorkers |-> IdleFormatter]
    /\ format_progress_label = ""
    /\ selected_json_file = None
    /\ formatted_text = NoText
    /\ completed = {}

\* the review tab's Refresh button: refresh_review_transcripts
Refresh ==
    /\ \E listing \in ListDir(files) :
          LET transcripts == get_saved_transcripts(transcripts_exists, files, listing)
          IN  /\ review_transcript_files' =
                    IF transcripts.raised THEN review_transcript_files
                    ELSE transcripts.value
              /\ scan' = ScanOf(transcripts_exists, files, listing)
    /\ UNCHANGED <<files, config, now, current_review_file, review_text,
                   low_confidence, loaded, typed, saves, op, transcripts_exists,
                   transcription, instances, formatting>>

\* load_transcript_for_review with the dropdown on entry selected_index (0-based)
Load(selected_index) ==
    /\ selected_index >= 0
    /\ selected_index < Len(review_transcript_files)
    /\ LET filepath == review_transcript_files[selected_index + 1].filepath
           data == files[filepath]
           threshold == get_confidence_threshold(config)
           segments == Get(data, "segments", <<>>)
       IN  /\ current_review_file' = filepath
           /\ review_text' = Encode(segments)
           /\ low_confidence' = TagLowConfidence(segments, threshold)
           /\ loaded' = [shown |-> TRUE, data |-> data, threshold |-> threshold,
                         flags |-> TagLowConfidence(segments, threshold)]
           /\ op' = [name |-> "load", prev |-> loaded]
    /\ UNCHANGED <<files, config, now, review_transcript_files, typed, saves>>
    /\ UNCHANGED <<transcripts_exists, scan, transcription, instances, formatting>>

\* the user retypes the editor's content, once in a session: blocks separated
\* by blank lines
Edit(blocks) ==
    /\ typed = 0
    /\ Len(blocks) <= MaxTyped
    /\ typed' = typed + Len(blocks)
    /\ review_text' = Join(<<NL, NL>>, blocks)
    /\ low_confidence' = <<>>
    /\ loaded' = NotLoaded
    /\ op' = [name |-> "edit"]
    /\ UNCHANGED <<files, config, now, review_transcript_files,
                   current_review_file, saves>>
    /\ UNCHANGED <<transcripts_exists, scan, transcription, instances, formatting>>

\* the low_confidence tags written into the record: the segments the editor
\* shows as flagged are stored with a "flagged" key
SavePersistingFlags ==
    /\ current_review_file # None
    /\ saves < MaxSaves
    /\ saves' = saves + 1
    /\ LET data == files[current_review_file]
           reviewed == Reviewed(data, review_text)
           threshold == get_confidence_threshold(config)
           after == [reviewed EXCEPT !.segments =
                        [i \in 1..Len(reviewed.segments) |->
                            [k \in DOMAIN reviewed.segments[i] \cup {"flagged"} |->
                                IF k = "flagged"
                                THEN IsLowConfidence(ConfidenceOf(reviewed.segments[i]),
                                                     threshold)
                                ELSE reviewed.segments[i][k]]]]
       IN  /\ files' = [files EXCEPT ![current_review_file] = after]
           /\ op' = [name |-> "save", result |-> "ok", before |-> data,
                     content |-> review_text, after |-> after]
    /\ UNCHANGED <<config, now, review_transcript_files, current_review_file,
                   review_text, low_confidence, loaded, typed, transcripts_exists,
                   scan, transcription, instances, formatting>>

\* save_reviewed_transcript
Save ==
    IF current_review_file = None
    THEN /\ op' = [name |-> "save", result |-> "No transcript loaded"]
         /\ UNCHANGED <<files, config, now, review_transcript_files,
                        current_review_file, review_text, low_confidence,
                        loaded, typed, saves, transcripts_exists, scan,
                        transcription, instances, formatting>>
    ELSE LET data == files[current_review_file]
             after == Reviewed(data, review_text)
         IN  /\ saves < MaxSaves
             /\ saves' = saves + 1
             /\ files' = [files EXCEPT ![current_review_file] = after]
             /\ op' = [name |-> "save", result |-> "ok", before |-> data,
                       content |-> review_text, after |-> after]
             /\ UNCHANGED <<config, now, review_transcript_files,
                            current_review_file, review_text, low_confidence,
                            loaded, typed, transcripts_exists, scan,
                            transcription, instances, formatting>>

\* save_confidence_threshold with the spinbox holding input
SaveThreshold(input) ==
    /\ IF ~ParseInt(input).ok
       THEN /\ op' = [name |-> "save_threshold", result |-> "Please enter a valid number"]
            /\ UNCHANGED config
       ELSE IF ThresholdInRange(ParseInt(input).value)
       THEN /\ config' = set_confidence_threshold(config, ParseInt(input).value)
            /\ op' = [name |-> "save_threshold", result |-> "ok"]
       ELSE /\ op' = [name |-> "save_threshold",
                      result |-> "Threshold must be between 0 and 100"]
            /\ UNCHANGED config
    /\ UNCHANGED <<files, now, review_transcript_files, current_review_file,
                   review_text, low_confidence, loaded, typed, saves>>
    /\ UNCHANGED <<transcripts_exists, scan, transcription, instances, formatting>>

\* save_hf_token with the entry holding token (already stripped)
SaveHfToken(token) ==
    /\ IF token # ""
       THEN /\ config' = [k \in DOMAIN config \cup {"huggingface_token"} |->
                            IF k = "huggingface_token" THEN token ELSE config[k]]
            /\ op' = [name |-> "save_hf_token", result |-> "ok"]
       ELSE /\ op' = [name |-> "save_hf_token", result |-> "Please enter a HuggingFace token"]
            /\ UNCHANGED config
    /\ UNCHANGED <<files, now, review_transcript_files, current_review_file,
                   review_text, low_confidence, loaded, typed, saves>>
    /\ UNCHANGED <<transcripts_exists, scan, transcription, instances, formatting>>

\* transcribe_audio for an audio of n utterances
Transcribe(project_name, n, diarization) ==
    /\ \E labelled \in Labellings(Aligned(n)) :
         LET result_segments ==
                 DiarizedSegments(get_huggingface_token(config), diarization,
                                  Aligned(n), labelled)
             json_filename == JsonFilename(project_name, StrfTime(now))
             transcript_data == TranscriptData(project_name, IsoFormat(now), result_segments)
         IN  /\ files' = [f \in DOMAIN files \cup {json_filename} |->
                            IF f = json_filename THEN transcript_data ELSE files[f]]
             /\ op' = [name |-> "transcribe", file |-> json_filename]
    /\ UNCHANGED <<config, now, review_transcript_files, current_review_file,
                   review_text, low_confidence, loaded, typed, saves>>
    /\ UNCHANGED <<transcripts_exists, scan, transcription, instances, formatting>>

\* the wall clock passes a second
Tick ==
    /\ now < MaxClock
    /\ now' = now + 1
    /\ UNCHANGED <<files, config, review, transcripts_exists, scan, transcription,
                   instances, formatting>>

\* start_transcription with the entry holding project_name and an audio of n
\* utterances selected: the background thread w is started
StartTranscription(w, project_name, n) ==
    /\ workers[w].pc = "idle"
    /\ \A v \in 1..(w - 1) : workers[v].pc # "idle"
    /\ Strip(project_name) # <<>>
    /\ workers' = [workers EXCEPT ![w] =
                      [@ EXCEPT !.pc = "load",
                                !.project_name = Strip(project_name),
                                !.utterances = n]]
    /\ UNCHANGED <<files, config, now, review, transcripts_exists, scan,
                   transcribe_progress_label, transcript_files,
                   instances, formatting>>

\* transcribe_audio, steps 1 and 2: the speech model is loaded, the audio
\* transcribed and aligned, or one of these calls raises
WorkerLoad(w, outcome) ==
    /\ workers[w].pc = "load"
    /\ IF outcome = "ok"
       THEN /\ workers' = [workers EXCEPT ![w] =
                              [@ EXCEPT !.pc = "diarize", !.loaded_model = "ok",
                                        !.segments = Aligned(workers[w].utterances)]]
            /\ transcribe_progress_label' = "Running speaker diarization..."
       ELSE /\ workers' = [workers EXCEPT ![w] =
                              [@ EXCEPT !.pc = "except", !.loaded_model = "failed"]]
            /\ transcribe_progress_label' = "Loading WhisperX model..."
    /\ UNCHANGED <<files, config, now, review, transcripts_exists, scan,
                   transcript_files,
                   instances, formatting>>

\* transcribe_audio, step 3 and the collection of the segments: the speakers
\* are assigned, or "Speaker" where diarization is skipped or raises, and
\* transcript_data is built
WorkerDiarize(w, outcome) ==
    /\ workers[w].pc = "diarize"
    /\ \E labelled \in Labellings(workers[w].segments) :
         LET hf_token == get_huggingface_token(config)
             result_segments ==
                 DiarizedSegments(hf_token, outcome, workers[w].segments, labelled)
             attempted == hf_token # "" /\ Strip(<<hf_token>>) # <<>>
         IN  workers' = [workers EXCEPT ![w] =
                 [@ EXCEPT !.pc = "open",
                           !.segments = result_segments,
                           !.diarized = IF ~attempted THEN "no_token"
                                        ELSE IF outcome = "ok" THEN "ok" ELSE "failed",
                           !.transcript_data =
                               TranscriptData(workers[w].project_name, IsoFormat(now),
                                              result_segments)]]
    /\ transcribe_progress_label' = "Processing segments..."
    /\ UNCHANGED <<files, config, now, review, transcripts_exists, scan,
                   transcript_files,
                   instances, formatting>>

\* transcribe_audio: the directory is made, the file named after the project
\* and the second of the clock, and opened for writing (created or truncated)
WorkerOpen(w) ==
    /\ workers[w].pc = "open"
    /\ LET json_filename == JsonFilename(workers[w].project_name, StrfTime(now))
       IN  /\ transcripts_exists' = TRUE
           /\ files' = [f \in DOMAIN files \cup {json_filename} |->
                           IF f = json_filename THEN InvalidJson ELSE files[f]]
           /\ workers' = [workers EXCEPT ![w] =
                             [@ EXCEPT !.pc = "dump", !.json_filename = json_filename]]
    /\ UNCHANGED <<config, now, review, scan, transcribe_progress_label,
                   transcript_files,
                   instances, formatting>>

\* transcribe_audio: json.dump into the open file, and the return
WorkerDump(w) ==
    /\ workers[w].pc = "dump"
    /\ files' = [files EXCEPT ![workers[w].json_filename] = workers[w].transcript_data]
    /\ workers' = [workers EXCEPT ![w] = [@ EXCEPT !.pc = "notify"]]
    /\ transcribe_progress_label' = "Transcription complete!"
    /\ UNCHANGED <<config, now, review, transcripts_exists, scan, transcript_files,
                   instances, formatting>>

\* the thread after transcribe_audio returned: the success message box
WorkerNotify(w) ==
    /\ workers[w].pc = "notify"
    /\ workers' = [workers EXCEPT ![w] = [@ EXCEPT !.pc = "refresh", !.success = TRUE]]
    /\ UNCHANGED <<files, config, now, review, transcripts_exists, scan,
                   transcribe_progress_label, transcript_files,
                   instances, formatting>>

\* the thread's call of refresh_transcripts
WorkerRefresh(w) ==
    /\ workers[w].pc = "refresh"
    /\ \E listing \in ListDir(files) :
          LET transcripts == get_saved_transcripts(transcripts_exists, files, listing)
          IN  /\ transcript_files' =
                    IF transcripts.raised THEN transcript_files ELSE transcripts.value
              /\ scan' = ScanOf(transcripts_exists, files, listing)
              /\ workers' = [workers EXCEPT ![w] =
                    [@ EXCEPT !.pc = IF transcripts.raised THEN "except" ELSE "finally"]]
    /\ UNCHANGED <<files, config, now, review, transcripts_exists,
                   transcribe_progress_label,
                   instances, formatting>>

\* the except clause swallows the exception: no message box
WorkerExceptSilent(w) ==
    /\ workers[w].pc = "except"
    /\ workers' = [workers EXCEPT ![w] = [@ EXCEPT !.pc = "finally"]]
    /\ UNCHANGED <<files, config, now, review, transcripts_exists, scan,
                   transcribe_progress_label, transcript_files,
                   instances, formatting>>

\* the thread's except clause: the failure message box
WorkerExcept(w) ==
    /\ workers[w].pc = "except"
    /\ workers' = [workers EXCEPT ![w] = [@ EXCEPT !.pc = "finally", !.failure = TRUE]]
    /\ UNCHANGED <<files, config, now, review, transcripts_exists, scan,
                   transcribe_progress_label, transcript_files,
                   instances, formatting>>

\* the thread's finally clause: the progress label is cleared
WorkerFinally(w) ==
    /\ workers[w].pc = "finally"
    /\ workers' = [workers EXCEPT ![w] = [@ EXCEPT !.pc = "done"]]
    /\ transcribe_progress_label' = ""
    /\ UNCHANGED <<files, config, now, review, transcripts_exists, scan,
                   transcript_files,
                   instances, formatting>>

\* one step of the background thread w
WorkerStep(w) ==
    \/ \E outcome \in {"ok", "fail"} : WorkerLoad(w, outcome)
    \/ \E outcome \in {"ok", "fail"} : WorkerDiarize(w, outcome)
    \/ WorkerOpen(w)
    \/ WorkerDump(w)
    \/ WorkerNotify(w)
    \/ WorkerRefresh(w)
    \/ WorkerExcept(w)
    \/ WorkerFinally(w)

\* the transcripts directory at start-up: empty, or one record written earlier
InitDirs ==
    {EmptyDir} \cup {[f \in {JsonFilename(ProjectP, StrfTime(0))} |-> r] : r \in InitRecords}

(* The review session: a record found on disk is loaded, edited and saved *)

Init == \E dir \in InitDirs : InitWith(dir)

Next ==
    \/ Refresh
    \/ \E selected_index \in 0..0 : Load(selected_index)
    \/ \E blocks \in EditTexts(MaxTyped) : Edit(blocks)
    \/ Save

Spec == Init /\ [][Next]_vars

(* The review session on a longer record: one segment more than MaxSegs *)

LongRecord ==
    LET sq == [i \in 1..(MaxSegs + 1) |->
                  [start |-> StartAt(i), end |-> StartAt(i) + 10,
                   text |-> TextA, speaker |-> SpeakerA]]
    IN  [project_name |-> ProjectP, timestamp |-> IsoFormat(0),
         full_transcript |-> Join(<<" ">>, [i \in 1..Len(sq) |-> sq[i].text]),
         segments |-> sq]

InitResave == InitWith([f \in {JsonFilename(ProjectP, StrfTime(0))} |-> LongRecord])

SpecResave == InitResave /\ [][Next]_vars

(* Review display: records are loaded under changing confidence thresholds *)

NextFlags ==
    \/ Refresh
    \/ \E selected_index \in 0..0 : Load(selected_index)
    \/ \E input \in ThresholdInputs : SaveThreshold(input)
    \/ \E blocks \in EditTexts(MaxTyped \div 2) : Edit(blocks)
    \/ Save

SpecFlags == Init /\ [][NextFlags]_vars

(* The pipeline: records are created by transcription, then reviewed *)

InitStore == InitWith(EmptyDir)

NextStore ==
    \/ \E project_name \in Projects, n \in 0..MaxSegs, diarization \in {"ok", "fail"} :
          Transcribe(project_name, n, diarization)
    \/ \E token \in {"", "tok"} : SaveHfToken(token)
    \/ Refresh
    \/ \E selected_index \in 0..0 : Load(selected_index)
    \/ \E blocks \in EditTexts(MaxTyped \div 2) : Edit(blocks)
    \/ Save

SpecStore == InitStore /\ [][NextStore]_vars

(* The catalog: transcription threads write records while the catalog is read *)

\* a record written by an earlier run in the given month, with no segments
StoredRecord(month) ==
    [project_name |-> ProjectP, timestamp |-> Iso(month, 0),
     full_transcript |-> <<>>, segments |-> <<>>]

\* a record of an older format, without a timestamp
UndatedRecord == [project_name |-> ProjectP, full_transcript |-> <<>>, segments |-> <<>>]

StoredFilename(month) == JsonFilename(ProjectP, Stamp(month, 0))

UndatedFilename == <<"o", "l", "d">> \o JsonSuffix

NotesFilename == <<"n", "o", "t", "e", "s", ".", "t", "x", "t">>

\* the transcripts directories the program may find at start-up: none, an
\* empty one, one holding only a file that is no transcript, and one holding
\* records of three months, an undated record or a stray file
CatalogDirs ==
    LET stored == [f \in {StoredFilename(1), StoredFilename(3), StoredFilename(2)} |->
                      IF f = StoredFilename(1) THEN StoredRecord(1)
                      ELSE IF f = StoredFilename(3) THEN StoredRecord(3)
                      ELSE StoredRecord(2)]
        mixed == [f \in {StoredFilename(2), UndatedFilename, NotesFilename} |->
                      IF f = StoredFilename(2) THEN StoredRecord(2)
                      ELSE IF f = UndatedFilename THEN UndatedRecord
                      ELSE InvalidJson]
    IN  { EmptyDir, [f \in {NotesFilename} |-> InvalidJson], stored, mixed }

\* the program started where no transcripts directory exists
InitNoDir ==
    /\ files = EmptyDir
    /\ config = DefaultConfig
    /\ now = 0
    /\ review_transcript_files = <<>>
    /\ transcript_files = <<>>
    /\ scan = ScanOf(FALSE, EmptyDir, <<>>)
    /\ transcripts_exists = FALSE
    /\ current_review_file = None
    /\ review_text = <<>>
    /\ low_confidence = <<>>
    /\ loaded = NotLoaded
    /\ typed = 0
    /\ saves = 0
    /\ op = [name |-> "init"]
    /\ workers = [w \in 1..MaxWorkers |-> IdleWorker]
    /\ transcribe_progress_label = ""
    /\ sessions = [s \in Sessions |-> ClosedSession]
    /\ last_write = NoWrite
    /\ format_workers = [w \in 1..MaxWorkers |-> IdleFormatter]
    /\ format_progress_label = ""
    /\ selected_json_file = None
    /\ formatted_text = NoText
    /\ completed = {}

InitCatalog ==
    \/ \E dir \in CatalogDirs : InitWith(dir)
    \/ InitNoDir

\* the catalog is refreshed while one transcription runs
NextCatalog ==
    \/ Refresh
    \/ Tick
    \/ \E project_name \in Projects : StartTranscription(1, project_name, 1)
    \/ WorkerStep(1)

SpecCatalog == InitCatalog /\ [][NextCatalog]_vars

(* Background transcription: up to MaxWorkers runs are in flight at a time *)

InitPipeline ==
    \/ InitWith(EmptyDir)
    \/ InitNoDir

NextPipeline ==
    \/ Tick
    \/ \E token \in {"", "tok"} : SaveHfToken(token)
    \/ \E w \in 1..MaxWorkers, project_name \in Projects, n \in 1..MaxSegs :
          StartTranscription(w, project_name, n)
    \/ \E w \in 1..MaxWorkers : WorkerStep(w)

SpecPipeline == InitPipeline /\ [][NextPipeline]_vars

(* Two instances of the program review the same record side by side *)

\* load_transcript_for_review in instance s, on the record named filepath
SessionLoad(s, filepath) ==
    /\ sessions[s].pc = "closed"
    /\ filepath \in DOMAIN files
    /\ sessions' = [sessions EXCEPT ![s] =
          [@ EXCEPT !.pc = "open",
                    !.current_review_file = filepath,
                    !.review_text = Encode(Get(files[filepath], "segments", <<>>))]]
    /\ UNCHANGED <<files, config, now, review, transcripts_exists, scan,
                   transcription, last_write, formatting>>

\* the user of instance s retypes the editor's content
SessionEdit(s, blocks) ==
    /\ sessions[s].pc = "open"
    /\ ~sessions[s].edited
    /\ sessions' = [sessions EXCEPT ![s] =
          [@ EXCEPT !.edited = TRUE, !.review_text = Join(<<NL, NL>>, blocks)]]
    /\ UNCHANGED <<files, config, now, review, transcripts_exists, scan,
                   transcription, last_write, formatting>>

\* save_reviewed_transcript in instance s, up to the update of data: the
\* editor is read, the record is read from the file and rebuilt in memory
SessionSaveRead(s) ==
    /\ sessions[s].pc = "open"
    /\ LET data == files[sessions[s].current_review_file]
       IN  sessions' = [sessions EXCEPT ![s] =
              [@ EXCEPT !.pc = "read",
                        !.edited_text = sessions[s].review_text,
                        !.read = data,
                        !.data = Reviewed(data, sessions[s].review_text)]]
    /\ UNCHANGED <<files, config, now, review, transcripts_exists, scan,
                   transcription, last_write, formatting>>

\* the written record keeps the segments the file holds beyond the new ones
SessionSaveWriteMerging(s) ==
    /\ sessions[s].pc = "read"
    /\ LET filepath == sessions[s].current_review_file
           data == sessions[s].data
           kept == SubSeq(files[filepath].segments, Len(data.segments) + 1,
                          Len(files[filepath].segments))
       IN  /\ files' = [files EXCEPT ![filepath] =
                           [data EXCEPT !.segments = data.segments \o kept]]
           /\ last_write' = [session |-> s,
                             stale |-> files[filepath] # sessions[s].read,
                             edited_text |-> sessions[s].edited_text,
                             read |-> sessions[s].read,
                             data |-> data]
    /\ sessions' = [sessions EXCEPT ![s] = [@ EXCEPT !.pc = "saved"]]
    /\ UNCHANGED <<config, now, review, transcripts_exists, scan, transcription,
                   formatting>>

\* save_reviewed_transcript in instance s, the rest: the rebuilt record is
\* written over the file
SessionSaveWrite(s) ==
    /\ sessions[s].pc = "read"
    /\ LET filepath == sessions[s].current_review_file
           data == sessions[s].data
       IN  /\ files' = [files EXCEPT ![filepath] = data]
           /\ last_write' = [session |-> s,
                             stale |-> files[filepath] # sessions[s].read,
                             edited_text |-> sessions[s].edited_text,
                             read |-> sessions[s].read,
                             data |-> data]
    /\ sessions' = [sessions EXCEPT ![s] = [@ EXCEPT !.pc = "saved"]]
    /\ UNCHANGED <<config, now, review, transcripts_exists, scan, transcription,
                   formatting>>

\* the record both instances review
SharedFilename == JsonFilename(ProjectP, StrfTime(0))

InitSessions ==
    \E r \in InitRecords : InitWith([f \in {SharedFilename} |-> r])

NextSessions ==
    \E s \in Sessions :
        \/ SessionLoad(s, SharedFilename)
        \/ \E blocks \in EditTexts(MaxTyped \div 2) : SessionEdit(s, blocks)
        \/ SessionSaveRead(s)
        \/ SessionSaveWrite(s)

SpecSessions == InitSessions /\ [][NextSessions]_vars

(* Formatting and export *)

\* get_groq_api_key()
get_groq_api_key(cfg) == Get(cfg, "groq_api_key", "")

\* save_api_key with the entry holding api_key (already stripped)
SaveApiKey(api_key) ==
    /\ api_key # ""
    /\ config' = [k \in DOMAIN config \cup {"groq_api_key"} |->
                     IF k = "groq_api_key" THEN api_key ELSE config[k]]
    /\ UNCHANGED <<files, now, review, transcripts_exists, scan, transcription,
                   instances, formatting>>

\* the text the language model returns for the transcript in filepath: known
\* here by the transcript it was made from
FormattedText(filepath, data) ==
    [source |-> filepath, project_name |-> Get(data, "project_name", Unknown)]

\* start_formatting with entry selected_index of the dropdown selected: the
\* selected file is stored and the background thread w is started
StartFormatting(w, selected_index) ==
    /\ format_workers[w].pc = "idle"
    /\ \A v \in 1..(w - 1) : format_workers[v].pc # "idle"
    /\ get_groq_api_key(config) # ""
    /\ selected_index >= 0
    /\ selected_index < Len(transcript_files)
    /\ selected_json_file' = transcript_files[selected_index + 1].filepath
    /\ format_workers' = [format_workers EXCEPT ![w] =
          [@ EXCEPT !.pc = "load", !.api_key = get_groq_api_key(config)]]
    /\ UNCHANGED <<files, config, now, review, transcripts_exists, scan,
                   transcription, instances, format_progress_label,
                   formatted_text, completed>>

\* the thread's call of format_transcript on self.selected_json_file as it is
\* now, up to the request: the transcript is read from the file
FormatLoad(w) ==
    /\ format_workers[w].pc = "load"
    /\ IF IsJson(files[selected_json_file])
       THEN /\ format_workers' = [format_workers EXCEPT ![w] =
                  [@ EXCEPT !.pc = "call", !.json_filepath = selected_json_file]]
            /\ format_progress_label' = "Sending to Groq API..."
       ELSE /\ format_workers' = [format_workers EXCEPT ![w] =
                  [@ EXCEPT !.pc = "except", !.json_filepath = selected_json_file]]
            /\ format_progress_label' = "Loading transcript..."
    /\ UNCHANGED <<files, config, now, review, transcripts_exists, scan,
                   transcription, instances, selected_json_file, formatted_text,
                   completed>>

\* format_transcript, the request to the language model: it answers, or raises
FormatCall(w, outcome) ==
    /\ format_workers[w].pc = "call"
    /\ IF outcome = "ok"
       THEN /\ format_workers' = [format_workers EXCEPT ![w] =
                  [@ EXCEPT !.pc = "assign", !.llm = "ok",
                            !.result = FormattedText(format_workers[w].json_filepath,
                                                     files[format_workers[w].json_filepath])]]
            /\ format_progress_label' = "Formatting complete!"
       ELSE /\ format_workers' = [format_workers EXCEPT ![w] =
                  [@ EXCEPT !.pc = "except", !.llm = "failed"]]
            /\ UNCHANGED format_progress_label
    /\ UNCHANGED <<files, config, now, review, transcripts_exists, scan,
                   transcription, instances, selected_json_file, formatted_text,
                   completed>>

\* the thread after format_transcript returned: self.formatted_text is
\* assigned, the result shown, and the success message box
FormatAssign(w) ==
    /\ format_workers[w].pc = "assign"
    /\ formatted_text' = format_workers[w].result
    /\ format_workers' = [format_workers EXCEPT ![w] =
          [@ EXCEPT !.pc = "finally", !.success = TRUE]]
    /\ UNCHANGED <<files, config, now, review, transcripts_exists, scan,
                   transcription, instances, format_progress_label,
                   selected_json_file, completed>>

\* the thread's except clause: the failure message box
FormatExcept(w) ==
    /\ format_workers[w].pc = "except"
    /\ format_workers' = [format_workers EXCEPT ![w] =
          [@ EXCEPT !.pc = "finally", !.failure = TRUE]]
    /\ UNCHANGED <<files, config, now, review, transcripts_exists, scan,
                   transcription, instances, format_progress_label,
                   selected_json_file, formatted_text, completed>>

\* the thread's finally clause: the progress label is cleared
FormatFinally(w) ==
    /\ format_workers[w].pc = "finally"
    /\ format_workers' = [format_workers EXCEPT ![w] = [@ EXCEPT !.pc = "done"]]
    /\ format_progress_label' = ""
    /\ UNCHANGED <<files, config, now, review, transcripts_exists, scan,
                   transcription, instances, selected_json_file, formatted_text,
                   completed>>

\* one step of the formatting thread w
FormatStep(w) ==
    \/ FormatLoad(w)
    \/ \E outcome \in {"ok", "fail"} : FormatCall(w, outcome)
    \/ FormatAssign(w)
    \/ FormatExcept(w)
    \/ FormatFinally(w)

\* save_to_completed: the document of self.formatted_text under the project
\* name read from self.selected_json_file
SaveToCompleted ==
    /\ formatted_text # NoText
    /\ selected_json_file # None
    /\ IsJson(files[selected_json_file])
    /\ "project_name" \in DOMAIN files[selected_json_file]
    /\ completed' = completed \cup
          {[project_name |-> files[selected_json_file]["project_name"],
            formatted_text |-> formatted_text]}
    /\ UNCHANGED <<files, config, now, review, transcripts_exists, scan,
                   transcription, instances, format_workers,
                   format_progress_label, selected_json_file, formatted_text>>

ProjectQ == <<"q">>

\* the transcripts directory with a record of project p and one of project q
ExportDir ==
    [f \in {JsonFilename(ProjectP, Stamp(2, 0)), JsonFilename(ProjectQ, Stamp(3, 0))} |->
        IF f = JsonFilename(ProjectP, Stamp(2, 0))
        THEN StoredRecord(2)
        ELSE [StoredRecord(3) EXCEPT !.project_name = ProjectQ]]

InitBackground == InitWith(ExportDir)

\* transcripts are formatted and exported while a transcription runs
NextBackground ==
    \/ \E api_key \in {"key"} : SaveApiKey(api_key)
    \/ \E token \in {"tok"} : SaveHfToken(token)
    \/ \E project_name \in Projects : StartTranscription(1, project_name, 1)
    \/ WorkerStep(1)
    \/ \E w \in 1..MaxWorkers, selected_index \in 0..1 : StartFormatting(w, selected_index)
    \/ \E w \in 1..MaxWorkers : FormatStep(w)
    \/ SaveToCompleted

SpecBackground == InitBackground /\ [][NextBackground]_vars

(* Timestamps: a record with one segment, of any start up to MaxStart, is loaded *)

TimedRecord(start) ==
    [project_name |-> ProjectP, timestamp |-> IsoFormat(0), full_transcript |-> TextA,
     segments |-> <<[start |-> start, end |-> start, text |-> TextA,
                     speaker |-> SpeakerA]>>]

InitTimestamp ==
    \E start \in 0..MaxStart : InitWith([f \in {JsonFilename(ProjectP, StrfTime(0))} |-> TimedRecord(start)])

NextTimestamp ==
    \/ \E selected_index \in 0..0 : Load(selected_index)
    \/ Refresh

SpecTimestamp == InitTimestamp /\ [][NextTimestamp]_vars

----------------------------------------------------------------------------
(* Properties *)

SaveDone == op.name = "save" /\ op.result = "ok"

\* the blocks of the saved editor content, as split on blank lines
SavedLines == Split(Strip(WidgetGet(op.content)), <<NL, NL>>)

NonBlank(lines, k) == Strip(lines[k]) # <<>>

\* number of blocks that are non-empty after trimming
NonEmptyCount(lines) == Cardinality({k \in 1..Len(lines) : NonBlank(lines, k)})

\* index in lines (1-based) of the j-th block that is non-empty after trimming
NthSurviving(lines, j) ==
    CHOOSE k \in 1..Len(lines) :
        NonBlank(lines, k) /\ Cardinality({h \in 1..k : NonBlank(lines, h)}) = j

\* C1: a record loaded into the review editor and saved back with no edit
\* keeps every segment's text and speaker, and its full_transcript.
RoundTripIdentity ==
    (SaveDone /\ loaded.shown /\ loaded.data = op.before) =>
        /\ \A i \in 1..Len(op.before.segments) :
              /\ i <= Len(op.after.segments)
              /\ op.after.segments[i].text = Get(op.before.segments[i], "text", <<>>)
              /\ op.after.segments[i].speaker
                    = Get(op.before.segments[i], "speaker", DefaultSpeaker)
        /\ op.after.full_transcript = op.before.full_transcript

\* C2: in every persisted record, full_transcript is the single-space join of
\* the segments' texts in segment order.
DerivedFieldInvariant ==
    \A f \in DOMAIN files :
        files[f].full_transcript
            = Join(<<" ">>, [i \in 1..Len(files[f].segments) |-> files[f].segments[i].text])

DerivedFieldWitness ==
    /\ SaveDone
    /\ Len(op.after.segments) >= 2
    /\ op.after.segments # op.before.segments

\* C3: the output segment at position i takes start and end from the original
\* segment at the same index i whenever the original has one, blank blocks
\* between non-blank ones included.
PositionalTiming ==
    SaveDone =>
        \A i \in 1..Len(op.after.segments) :
            i <= Len(op.before.segments) =>
                /\ op.after.segments[i].start = op.before.segments[i].start
                /\ op.after.segments[i].end = op.before.segments[i].end

\* C4: with n non-empty blocks against m < n original segments the save
\* produces n segments, those at positions m..n-1 with start = end = 0 and
\* those at positions 0..m-1 with the original start and end.
BlockCountGrowth ==
    (SaveDone /\ NonEmptyCount(SavedLines) > Len(op.before.segments)) =>
        /\ Len(op.after.segments) = NonEmptyCount(SavedLines)
        /\ \A i \in 1..Len(op.after.segments) :
              IF i > Len(op.before.segments)
              THEN op.after.segments[i].start = 0 /\ op.after.segments[i].end = 0
              ELSE /\ op.after.segments[i].start = op.before.segments[i].start
                   /\ op.after.segments[i].end = op.before.segments[i].end

\* C5: an output segment built from the original segment at the same position
\* differs from it in text and speaker only, and the record's project_name and
\* timestamp are unchanged.
DecodeFrame ==
    SaveDone =>
        /\ op.after.project_name = op.before.project_name
        /\ op.after.timestamp = op.before.timestamp
        /\ \A j \in 1..Len(op.after.segments) :
              (NthSurviving(SavedLines, j) = j /\ j <= Len(op.before.segments)) =>
                  /\ DOMAIN op.after.segments[j]
                        = DOMAIN op.before.segments[j] \cup {"text", "speaker"}
                  /\ \A k \in DOMAIN op.before.segments[j] \ {"text", "speaker"} :
                        op.after.segments[j][k] = op.before.segments[j][k]

DecodeFrameWitness ==
    /\ SaveDone
    /\ \E j \in 1..Len(op.after.segments) :
          /\ NthSurviving(SavedLines, j) = j
          /\ j <= Len(op.before.segments)
          /\ "confidence" \in DOMAIN op.before.segments[j]
          /\ op.after.segments[j].text # op.before.segments[j].text

Displayed == loaded.shown

\* C6: a displayed segment with a confidence value c is flagged exactly when
\* c < t for the threshold t of the load; c = t is not flagged, and with t = 0
\* no segment is flagged.
FlagRule ==
    Displayed =>
        /\ Len(low_confidence) = Len(loaded.data.segments)
        /\ \A i \in 1..Len(loaded.data.segments) :
              "confidence" \in DOMAIN loaded.data.segments[i] =>
                  /\ low_confidence[i] <=> loaded.data.segments[i].confidence < loaded.threshold
                  /\ loaded.data.segments[i].confidence = loaded.threshold => ~low_confidence[i]
        /\ loaded.threshold = 0 => \A i \in 1..Len(low_confidence) : ~low_confidence[i]

FlagRuleWitness ==
    /\ Displayed
    /\ \E i, j \in 1..Len(loaded.data.segments) :
          /\ "confidence" \in DOMAIN loaded.data.segments[i]
          /\ loaded.data.segments[i].confidence < loaded.threshold
          /\ low_confidence[i]
          /\ "confidence" \notin DOMAIN loaded.data.segments[j]
          /\ ~low_confidence[j]

\* C7: a displayed segment without a confidence key is not flagged, whatever
\* threshold the configuration holds.
MissingConfidenceNeverFlagged ==
    Displayed =>
        \A i \in 1..Len(loaded.data.segments) :
            "confidence" \notin DOMAIN loaded.data.segments[i] => ~low_confidence[i]

MissingConfidenceWitness ==
    /\ Displayed
    /\ loaded.threshold = 100
    /\ get_confidence_threshold(config) = 100
    /\ \E i \in 1..Len(loaded.data.segments) :
          "confidence" \notin DOMAIN loaded.data.segments[i] /\ ~low_confidence[i]

\* the two most recent loads displayed the same record
SameRecordReloaded ==
    op.name = "load" /\ op.prev.shown /\ op.prev.data = loaded.data

\* C8: for two loads of the same record with thresholds t1 <= t2, every segment
\* flagged with t1 is flagged with t2 (so every segment unflagged with t2 is
\* unflagged with t1).
FlagMonotonicity ==
    SameRecordReloaded =>
        /\ op.prev.threshold <= loaded.threshold =>
              \A i \in 1..Len(loaded.flags) : op.prev.flags[i] => loaded.flags[i]
        /\ loaded.threshold <= op.prev.threshold =>
              \A i \in 1..Len(loaded.flags) : loaded.flags[i] => op.prev.flags[i]

FlagMonotonicityWitness ==
    /\ SameRecordReloaded
    /\ op.prev.threshold < loaded.threshold
    /\ \E i \in 1..Len(loaded.flags) : ~op.prev.flags[i] /\ loaded.flags[i]

\* the rendered timestamp of the first displayed block: up to the first "]"
FirstPrefix == SubSeq(review_text, 1, Index(review_text, "]") + 1)

\* out is "[MM:SS]" with MM and SS the decimal numerals of minutes and seconds,
\* each at least two digits wide and zero-padded to exactly two when below 100
IsTimestampOf(out, minutes, seconds) ==
    /\ Len(out) >= 7
    /\ out[1] = "["
    /\ out[Len(out)] = "]"
    /\ out[Len(out) - 3] = ":"
    /\ LET mm == SubSeq(out, 2, Len(out) - 4)
           ss == SubSeq(out, Len(out) - 2, Len(out) - 1)
       IN  /\ AllDigits(mm) /\ AllDigits(ss)
           /\ DigitsValue(mm) = minutes
           /\ DigitsValue(ss) = seconds
           /\ Len(mm) > 2 => mm[1] # "0"

\* C9: for a segment with non-negative start the encode step renders [MM:SS]
\* with MM = floor(start / 60) and SS = floor(start) mod 60, SS in 00..59, both
\* zero-padded to two digits; 125 gives [02:05] and 0 gives [00:00].
TimestampFormatting ==
    (op.name = "load" /\ Len(loaded.data.segments) > 0) =>
        LET start == loaded.data.segments[1].start
            whole == start \div 10
        IN  /\ IsTimestampOf(FirstPrefix, whole \div 60, whole % 60)
            /\ (whole % 60) \in 0..59
            /\ whole = 125 => FirstPrefix = <<"[", "0", "2", ":", "0", "5", "]">>
            /\ whole = 0 => FirstPrefix = <<"[", "0", "0", ":", "0", "0", "]">>

TimestampFormattingWitness ==
    /\ op.name = "load"
    /\ Len(loaded.data.segments) > 0
    /\ loaded.data.segments[1].start = 1257
    /\ FirstPrefix = <<"[", "0", "2", ":", "0", "5", "]">>

\* C10: a save completes for any edited text, and every non-empty block that
\* does not start with "[" or contains no "]" becomes a segment with speaker
\* "Speaker" and the whole trimmed block as text.
MalformedFallback ==
    (op.name = "save" /\ current_review_file # None) =>
        /\ op.result = "ok"
        /\ Len(op.after.segments) = NonEmptyCount(SavedLines)
        /\ \A j \in 1..Len(op.after.segments) :
              LET block == Strip(SavedLines[NthSurviving(SavedLines, j)])
              IN  (Head(block) # "[" \/ ~Contains(block, "]")) =>
                      /\ op.after.segments[j].speaker = DefaultSpeaker
                      /\ op.after.segments[j].text = block

MalformedFallbackWitness ==
    /\ SaveDone
    /\ \E j \in 1..Len(op.after.segments) :
          LET block == Strip(SavedLines[NthSurviving(SavedLines, j)])
          IN  /\ Head(block) = "["
              /\ ~Contains(block, "]")
              /\ op.after.segments[j].speaker = DefaultSpeaker
              /\ op.after.segments[j].text = block

\* the file names of a catalog, in its order
FilepathsOf(catalog) == [i \in 1..Len(catalog) |-> catalog[i].filepath]

\* C11: the catalog get_saved_transcripts returns has exactly one entry per
\* .json file of the directory, and no entry's timestamp is less, as a string,
\* than the next entry's; records of January, March and February come back
\* as March, February, January.
CatalogOrdering ==
    ~scan.raised =>
        /\ Len(scan.returned) = Cardinality(scan.json_files)
        /\ {scan.returned[i].filepath : i \in 1..Len(scan.returned)} = scan.json_files
        /\ \A i \in 1..(Len(scan.returned) - 1) :
              ~StrLess(scan.returned[i].timestamp, scan.returned[i + 1].timestamp)
        /\ scan.json_files = {StoredFilename(1), StoredFilename(2), StoredFilename(3)} =>
              FilepathsOf(scan.returned)
                  = <<StoredFilename(3), StoredFilename(2), StoredFilename(1)>>

CatalogOrderingWitness ==
    /\ ~scan.raised
    /\ Len(scan.returned) = 4
    /\ scan.returned = review_transcript_files
    /\ \E i \in 1..3 : StrLess(scan.returned[i + 1].timestamp, scan.returned[i].timestamp)

\* C12: a call of get_saved_transcripts that finds no directory, or a
\* directory without a single valid transcript file, returns the empty list
\* and does not raise.
EmptyCatalog ==
    scan.valid = {} => (~scan.raised /\ scan.returned = <<>>)

\* C13: the save yields one segment per block of the edited text that is
\* non-empty after trimming, in block order, and none for a whitespace-only
\* block: as many segments as non-empty blocks, the j-th segment holding the
\* speaker and text of the j-th non-empty block.
EmptyBlockDiscarding ==
    SaveDone =>
        /\ Len(op.after.segments) = NonEmptyCount(SavedLines)
        /\ \A j \in 1..Len(op.after.segments) :
              LET parsed == ParseBlock(Strip(SavedLines[NthSurviving(SavedLines, j)]))
              IN  /\ op.after.segments[j].text = parsed.text
                  /\ op.after.segments[j].speaker = parsed.speaker

EmptyBlockDiscardingWitness ==
    /\ SaveDone
    /\ Len(SavedLines) = 3
    /\ ~NonBlank(SavedLines, 2)
    /\ Len(op.after.segments) = 2
    /\ op.after.segments[1].text # op.after.segments[2].text

\* the keys of the interchange format: of a record and of a segment
RecordKeys == {"project_name", "timestamp", "full_transcript", "segments"}

SegmentKeys == {"start", "end", "text", "speaker", "confidence"}

\* C14: a load for review and a change of the confidence threshold leave every
\* persisted record as it is, and a save writes the record decoded from the
\* edited text and the record on file, whatever the threshold: no key and no
\* value of the written record comes from the threshold.
PresentationOnly ==
    [][ /\ (op' # op /\ op'.name \in {"load", "save_threshold"}) => files' = files
        /\ (op' # op /\ op'.name = "save" /\ op'.result = "ok") =>
              /\ files' = [files EXCEPT ![current_review_file] =
                              Reviewed(files[current_review_file], review_text)]
              /\ DOMAIN files'[current_review_file] \subseteq RecordKeys
              /\ \A i \in 1..Len(files'[current_review_file].segments) :
                    DOMAIN files'[current_review_file].segments[i] \subseteq SegmentKeys
      ]_vars

\* a text typed into the editor is saved while the threshold flags a segment
\* of the record on file
PresentationOnlyWitness ==
    /\ SaveDone
    /\ get_confidence_threshold(config) = 100
    /\ typed > 0
    /\ \E i \in 1..Len(op.before.segments) :
          IsLowConfidence(ConfidenceOf(op.before.segments[i]), 100)
    /\ \E i \in 1..Len(op.after.segments) :
          IsLowConfidence(ConfidenceOf(op.after.segments[i]), 100)

\* C15: with two instances reading and writing the same record in any
\* interleaving, the record on file after a write is the whole record the
\* last writer built from what it had read and typed, and nothing of what the
\* other instance wrote in between.
LastWriterWins ==
    last_write.session # 0 =>
        /\ files[SharedFilename] = last_write.data
        /\ files[SharedFilename] = Reviewed(last_write.read, last_write.edited_text)

\* both instances have saved, the last one over a record that had changed
\* since it read it, and the first one's longer record is gone
LastWriterWinsWitness ==
    /\ \A s \in Sessions : sessions[s].pc = "saved"
    /\ last_write.stale
    /\ files[SharedFilename] = last_write.data
    /\ \E s \in Sessions :
          /\ s # last_write.session
          /\ sessions[s].data # files[SharedFilename]
          /\ Len(sessions[s].data.segments) > Len(files[SharedFilename].segments)

\* C16: no step of a transcription run overwrites a record that exists: a
\* record on file is still there, unchanged, after every step, so that every
\* completed transcribe_audio call has added a file of its own, also with two
\* runs for the same project name in flight.
CreateOnce ==
    [][ \A f \in DOMAIN files :
           IsJson(files[f]) => (f \in DOMAIN files' /\ files'[f] = files[f]) ]_vars

\* the run of worker w went without speaker labels: no token was configured
\* or the diarization raised
FellBack(w) == workers[w].diarized \in {"no_token", "failed"}

\* C17: a transcription run without a HuggingFace token, or whose diarization
\* raises, goes on to the end of transcribe_audio, and the record it writes
\* has speaker "Speaker" on every segment.
DiarizationFallback ==
    [][ \A w \in 1..MaxWorkers :
           /\ (workers[w].pc = "diarize" /\ FellBack(w)') => workers'[w].pc = "open"
           /\ (workers[w].pc = "dump" /\ workers'[w].pc # "dump" /\ FellBack(w)) =>
                 /\ workers'[w].pc = "notify"
                 /\ IsJson(files'[workers[w].json_filename])
                 /\ Len(files'[workers[w].json_filename].segments) = workers[w].utterances
                 /\ \A i \in 1..Len(files'[workers[w].json_filename].segments) :
                       files'[workers[w].json_filename].segments[i].speaker
                           = DefaultSpeaker ]_vars

\* two runs have returned from transcribe_audio, one after a diarization that
\* raised and one without a token, and a record of two segments is on file
DiarizationFallbackWitness ==
    /\ \E v, w \in 1..MaxWorkers :
          /\ workers[v].diarized = "failed"
          /\ workers[w].diarized = "no_token"
          /\ workers[v].pc \in {"notify", "refresh", "finally", "done"}
          /\ workers[w].pc \in {"notify", "refresh", "finally", "done"}
          /\ IsJson(files[workers[v].json_filename])
          /\ Len(workers[v].transcript_data.segments) = 2
          /\ \A i \in 1..2 : workers[v].transcript_data.segments[i].speaker = DefaultSpeaker

\* the transcription run w ends with this step
TranscriptionEnds(w) == workers[w].pc # "done" /\ workers'[w].pc = "done"

\* the formatting run w ends with this step
FormattingEnds(w) == format_workers[w].pc # "done" /\ format_workers'[w].pc = "done"

\* C18 as stated: a background run in which a collaborator call failed (the
\* loading of the speech model, the diarization, the request to the language
\* model) ends with the failure message shown and no success message, and
\* with its progress label cleared.
FailurePropagation ==
    [][ /\ \A w \in 1..MaxWorkers :
              (TranscriptionEnds(w) /\ (workers[w].loaded_model = "failed"
                                        \/ workers[w].diarized = "failed")) =>
                  /\ workers'[w].failure
                  /\ ~workers'[w].success
                  /\ transcribe_progress_label' = ""
        /\ \A w \in 1..MaxWorkers :
              (FormattingEnds(w) /\ format_workers[w].llm = "failed") =>
                  /\ format_workers'[w].failure
                  /\ ~format_workers'[w].success
                  /\ format_progress_label' = "" ]_vars

\* C18 amended: a background run in which the speech model's loading,
\* transcription or alignment, or the request to the language model, failed
\* ends with the failure message shown and no success message, and with its
\* progress label cleared; a diarization that raises is not such a failure,
\* the run goes on.
FailurePropagationAmended ==
    [][ /\ \A w \in 1..MaxWorkers :
              (TranscriptionEnds(w) /\ workers[w].loaded_model = "failed") =>
                  /\ workers'[w].failure
                  /\ ~workers'[w].success
                  /\ transcribe_progress_label' = ""
        /\ \A w \in 1..MaxWorkers :
              (FormattingEnds(w) /\ format_workers[w].llm = "failed") =>
                  /\ format_workers'[w].failure
                  /\ ~format_workers'[w].success
                  /\ format_progress_label' = ""
        /\ \A w \in 1..MaxWorkers :
              (workers[w].pc = "diarize" /\ workers'[w].diarized = "failed") =>
                  workers'[w].pc = "open" ]_vars

\* a transcription whose model failed to load and a formatting whose request
\* failed have both ended, each with its failure message
FailurePropagationWitness ==
    /\ workers[1].pc = "done"
    /\ workers[1].loaded_model = "failed"
    /\ workers[1].failure /\ ~workers[1].success
    /\ transcribe_progress_label = ""
    /\ \E w \in 1..MaxWorkers :
          /\ format_workers[w].pc = "done"
          /\ format_workers[w].llm = "failed"
          /\ format_workers[w].failure /\ ~format_workers[w].success
    /\ format_progress_label = ""

\* C20: every document written by save_to_completed carries the project name
\* of the transcript its formatted text was made from.
ExportConsistency ==
    \A doc \in completed : doc.project_name = doc.formatted_text.project_name

\* C19: a save that follows a save, with no load and no edit in between,
\* leaves the record on file as the first save wrote it.
SaveIdempotence ==
    [][ (op.name = "save" /\ op.result = "ok" /\ saves' = saves + 1) =>
            files' = files ]_vars

====
